---------------------------- MODULE Spec2Model ----------------------------
(***************************************************************************)
(* Model of ba_tools: Simulation (simulation.py) driving a GenericSANS     *)
(* experiment (instruments/generic.py).                                    *)
(*                                                                         *)
(* Numbers.  The program computes in floating point; the model computes    *)
(* in integers:                                                            *)
(*   - lengths are millimetres;                                            *)
(*   - angles are micro-radians, arctan2(y, x) for x > 0 being y/x to the  *)
(*     micro-radian (the geometry is small-angle throughout);              *)
(*   - wavelengths are picometres;                                         *)
(*   - dlambda_rel is a percentage;                                        *)
(*   - intensities are fixed-point integers, and a normalising division    *)
(*     rounds down;                                                        *)
(*   - kernel weights are exact rationals held as integer numerators over  *)
(*     one common positive denominator.                                    *)
(* An image is a function row -> column -> intensity, rows and columns     *)
(* counted from 0 as numpy does.                                           *)
(***************************************************************************)
EXTENDS Integers, Sequences, FiniteSets, TLC

VARIABLES
    experiment,   \* the GenericSANS instance: beam state and instance geometry
    config,       \* GenericSANS._config, the class-level Config
    sample,       \* Simulation.sample
    pc,           \* "idle", or "scan" while runOffSpecular is in its loop
    scan,         \* the locals of the runOffSpecular call in progress / last made
    call,         \* the last call the caller made: operation, arguments, and the
                  \* experiment as the caller saw it immediately before the call
    ret,          \* what that call returned or raised ("pending" inside a scan)
    engineLog,    \* the engine runs started by that call, in order
    fastLog,      \* the apply_fast_resolution calls made by that call, in order
    frames,       \* the images runGISANS returned to runOffSpecular, in order
    derived       \* the distributions and kernels the caller derived first, with
                  \* the experiment and config they were derived from (if kept)

vars == <<experiment, config, sample, pc, scan, call, ret, engineLog, fastLog, frames,
          derived>>

---------------------------------------------------------------------------
(* Bounds of the model *)

\* detector_pixels; the program's default is 200
DetectorPixels == 8
\* the longest scan axis handed to runOffSpecular
MaxScan == 2

---------------------------------------------------------------------------
(* Input domains *)

AngleUnit == 1000 * 1000

\* 1 deg and 2 deg
AlphaValues == {17453, 34907}
\* 6 angstrom and 12 angstrom
WavelengthValues == {600, 1200}
IbgValues == {0, 3}
\* guide and sample sizes in mm, on both sides of sample_size = guide_size, and
\* away from the geometries where rounding decides an int() of the program
GuideSizes == {2, 18}
SampleSizes == {1, 11}
\* dlambda_rel in percent
DlambdaRelValues == {65}
\* bin counts: two negative magnitudes, zero, one positive
BinValues == {-3, -1, 0, 2}

ResolutionOptions == [wavelength_bins : BinValues, alpha_bins : BinValues, phi_bins : BinValues]

NO_RES == [wavelength_bins |-> 0, alpha_bins |-> 0, phi_bins |-> 0]
FAST_RES == [wavelength_bins |-> 5, alpha_bins |-> 5, phi_bins |-> -1]

Pixels == 0 .. (DetectorPixels - 1)

---------------------------------------------------------------------------
(* Arithmetic helpers *)

Abs(x) == IF x < 0 THEN -x ELSE x

Max(a, b) == IF a > b THEN a ELSE b

Min(a, b) == IF a < b THEN a ELSE b

\* Python's int(): truncation toward zero of the quotient n/d, d > 0
int(n, d) == IF n >= 0 THEN n \div d ELSE -((-n) \div d)

\* numpy.arctan2(y, x) for x > 0, the argument y given as yn/yd
arctan2(yn, yd, x) == int(yn * AngleUnit, yd * x)

\* an array held as its values (TLC otherwise keeps [x \in S |-> e] as a rule
\* and recomputes e at every use)
Array(f) == IF f = f THEN f ELSE f

RECURSIVE SumSeq(_)
SumSeq(s) == IF s = <<>> THEN 0 ELSE Head(s) + SumSeq(Tail(s))

\* sum of f[k] for k in lo..hi
RECURSIVE SumFn(_, _, _)
SumFn(f, lo, hi) == IF lo > hi THEN 0 ELSE f[lo] + SumFn(f, lo + 1, hi)


---------------------------------------------------------------------------
(* GenericSANS: the detector and the three resolution distributions *)

\* whether the installed engine's RectangularDetector has
\* setPerpendicularToDirectBeam (generic.py line 47 asks with hasattr)
HasSetPerpendicularToDirectBeam == TRUE

detector(exp, cfg) ==
    LET x0 == int(cfg.detector_size * cfg.center_x_pix, cfg.detector_pixels)
        y0 == int(cfg.detector_size * cfg.center_y_pix, cfg.detector_pixels)
        det == [nbinsx |-> cfg.detector_pixels, width |-> cfg.detector_size,
                nbinsy |-> cfg.detector_pixels, height |-> cfg.detector_size]
    IN  IF HasSetPerpendicularToDirectBeam
        THEN [det |-> det, placement |-> "perpendicularToDirectBeam",
              distance |-> exp.detector_distance, tilt |-> 0, u0 |-> x0, v0 |-> y0]
        ELSE [det |-> det, placement |-> "position",
              distance |-> exp.detector_distance, tilt |-> -exp.alpha_i, u0 |-> x0, v0 |-> y0]

\* DistributionTrapezoid(center, left_width, middle_width, right_width)
DistributionTrapezoid(center, left, middle, right) ==
    [type |-> "Trapezoid", center |-> center, left |-> left, middle |-> middle, right |-> right]

\* DistributionGate(min, max)
DistributionGate(lo, hi) == [type |-> "Gate", min |-> lo, max |-> hi]

res_wavelength(exp, cfg) ==
    LET fwhm == int(cfg.dlambda_rel * exp.wavelength, 100)
    IN  DistributionTrapezoid(exp.wavelength, fwhm, 0, fwhm)

res_alpha(exp, cfg) ==
    LET hwhm == arctan2(cfg.guide_size, 2, exp.collimation_length)
    IN  DistributionGate(exp.alpha_i - hwhm, exp.alpha_i + hwhm)

res_phi(exp, cfg) ==
    LET max_hw == arctan2(cfg.guide_size + exp.sample_size, 2, exp.collimation_length)
        min_hw == arctan2(cfg.guide_size - exp.sample_size, 2, exp.collimation_length)
    IN  DistributionTrapezoid(0, max_hw - min_hw, 2 * min_hw, max_hw - min_hw)

---------------------------------------------------------------------------
(* Construction: the dataclass __init__ followed by Parametered.__post_init__ *)

\* SUPPORTED_UNITS in the units of the model (mm, pm, micro-radian)
SUPPORTED_UNITS == [m |-> 1000, mm |-> 1, angstrom |-> 100, deg |-> 17453]

\* __post_init__: every field that carries a unit is multiplied by the unit's
\* value; nothing else is done to the fields, and nothing is raised
post_init(fields, units) ==
    [f \in DOMAIN fields |->
        IF f \in DOMAIN units THEN fields[f] * SUPPORTED_UNITS[units[f]] ELSE fields[f]]

\* GenericSANS(alpha_i, wavelength, collimation_length, detector_distance,
\* sample_size), the arguments in deg, angstrom, m, m and mm
GenericSANS(alpha_i, wavelength, collimation_length, detector_distance, sample_size) ==
    [raised |-> FALSE,
     value |-> post_init([alpha_i |-> alpha_i, wavelength |-> wavelength,
                          collimation_length |-> collimation_length,
                          detector_distance |-> detector_distance,
                          sample_size |-> sample_size, I0 |-> 1, Ibg |-> 0],
                         [alpha_i |-> "deg", wavelength |-> "angstrom",
                          collimation_length |-> "m", detector_distance |-> "m",
                          sample_size |-> "mm"])]

\* GenericSANS.Config(guide_size, detector_size, detector_pixels, center_x_pix,
\* center_y_pix, dlambda_rel), the sizes in mm, dlambda_rel in percent
Config(guide_size, detector_size, detector_pixels, center_x_pix, center_y_pix, dlambda_rel) ==
    [raised |-> FALSE,
     value |-> post_init([guide_size |-> guide_size, detector_size |-> detector_size,
                          detector_pixels |-> detector_pixels,
                          center_x_pix |-> center_x_pix, center_y_pix |-> center_y_pix,
                          dlambda_rel |-> dlambda_rel],
                         [guide_size |-> "mm", detector_size |-> "mm"])]

\* the distances (in m) and the detector sizes and pixel counts the caller
\* constructs instruments and configurations with
DistanceArgs == {-10, 0, 10}
DetectorSizeArgs == {0, 1000}
DetectorPixelArgs == {0, 200}

---------------------------------------------------------------------------
(* GenericSANS.apply_fast_resolution: the angular kernel *)

angle_per_pixel(exp, cfg) ==
    arctan2(cfg.detector_size, cfg.detector_pixels, exp.detector_distance)

\* kernel_height = int(2 * alpha_res / angle_per_pixel) + 1
kernel_height(exp, cfg) ==
    LET alpha_res == arctan2(cfg.guide_size, 2, exp.collimation_length)
    IN  int(2 * alpha_res, angle_per_pixel(exp, cfg)) + 1

\* kernel_width = int(2 * max_hw / angle_per_pixel) + 1
kernel_width(exp, cfg) ==
    LET max_hw == arctan2(cfg.guide_size + exp.sample_size, 2, exp.collimation_length)
    IN  int(2 * max_hw, angle_per_pixel(exp, cfg)) + 1

\* dx = linspace(-kw/2, kw/2, kw): |dx[t]| as the fraction num/den, t from 0.
\* numpy returns the start point alone when kw = 1.
dx_abs(kw, t) ==
    IF kw = 1 THEN [num |-> 1, den |-> 2]
    ELSE [num |-> kw * Abs(2 * t - (kw - 1)), den |-> 2 * (kw - 1)]

\* The azimuth profile where(|dx| < min_hw/app, 1, maximum(1 - (|dx| - min_hw/app)
\* / (max_hw - min_hw) * app, 0)) as numerators over the denominator
\* phi_denominator; max_hw > min_hw (sample_size > 0) is assumed.
phi_denominator(exp, cfg) ==
    LET kw == kernel_width(exp, cfg)
        max_hw == arctan2(cfg.guide_size + exp.sample_size, 2, exp.collimation_length)
        min_hw == arctan2(cfg.guide_size - exp.sample_size, 2, exp.collimation_length)
    IN  dx_abs(kw, 0).den * (max_hw - min_hw)

phi_profile(exp, cfg) ==
    LET app == angle_per_pixel(exp, cfg)
        kw == kernel_width(exp, cfg)
        max_hw == arctan2(cfg.guide_size + exp.sample_size, 2, exp.collimation_length)
        min_hw == arctan2(cfg.guide_size - exp.sample_size, 2, exp.collimation_length)
        weight(t) ==
            LET dx == dx_abs(kw, t)
            IN  IF dx.num * app < min_hw * dx.den
                THEN dx.den * (max_hw - min_hw)
                ELSE Max(dx.den * max_hw - dx.num * app, 0)
    IN  Array([t \in 0 .. (kw - 1) |-> weight(t)])

\* a faulty variant of Kernel: the kernel of the alpha-and-phi branch is built
\* whichever of the two is requested
KernelAlwaysFull(exp, cfg, alpha, phi) ==
    LET p == phi_profile(exp, cfg)
        h == kernel_height(exp, cfg)
        w == kernel_width(exp, cfg)
    IN  [h |-> h, w |-> w, den |-> phi_denominator(exp, cfg),
         num |-> [t \in 0 .. (h - 1) |-> [u \in 0 .. (w - 1) |-> p[u]]]]

\* The kernel of the three angular branches: rows (the alpha direction) by
\* columns (the phi direction), [h, w, num, den]; num[t][u] / den is the raw
\* (pre-normalisation) weight.
Kernel(exp, cfg, alpha, phi) ==
    IF alpha /\ phi THEN
        LET p == phi_profile(exp, cfg)
            h == kernel_height(exp, cfg)
            w == kernel_width(exp, cfg)
        IN  [h |-> h, w |-> w, den |-> phi_denominator(exp, cfg),
             num |-> [t \in 0 .. (h - 1) |-> [u \in 0 .. (w - 1) |-> p[u]]]]
    ELSE IF phi THEN
        LET p == phi_profile(exp, cfg)
            w == kernel_width(exp, cfg)
        IN  [h |-> 1, w |-> w, den |-> phi_denominator(exp, cfg),
             num |-> [t \in 0 .. 0 |-> [u \in 0 .. (w - 1) |-> p[u]]]]
    ELSE
        LET h == kernel_height(exp, cfg)
        IN  [h |-> h, w |-> 1, den |-> 1,
             num |-> [t \in 0 .. (h - 1) |-> [u \in 0 .. 0 |-> 1]]]

\* norm = kernel.sum(), as a numerator over the kernel's denominator
KernelNorm(k) ==
    SumFn([t \in 0 .. (k.h - 1) |-> SumFn(k.num[t], 0, k.w - 1)], 0, k.h - 1)

---------------------------------------------------------------------------
(* GenericSANS.apply_fast_resolution: the two passes *)

\* i_range = int(2 * res_pts * abs(cos(Phiij))) with res_pts = R[j, i] * dlambda_rel
\* and Phi[j, i] = arctan2(j - center_x_pix, i - center_y_pix), so that
\* R[j, i] * abs(cos(Phiij)) = |i - center_y_pix|
i_range(cfg, i) == int(2 * cfg.dlambda_rel * Abs(i - cfg.center_y_pix), 100)

\* j_range = int(2 * res_pts * abs(sin(Phiij))); R[j, i] * abs(sin(Phiij)) = |j - center_x_pix|
j_range(cfg, j) == int(2 * cfg.dlambda_rel * Abs(j - cfg.center_x_pix), 100)

\* the condition of lines 100-106, under which the pixel is copied
PassedThrough(cfg, i, j) ==
    LET ir == i_range(cfg, i)
        jr == j_range(cfg, j)
        last == cfg.detector_pixels - 1
    IN  \/ (i - ir) < 0
        \/ (j - jr) < 0
        \/ (i + ir) >= last
        \/ (j + jr) >= last
        \/ Max(ir, jr) < 2

\* range(-r // 2, r // 2 + 1); Python reads -r // 2 as (-r) // 2
TentRange(r) == ((-r) \div 2) .. (r \div 2)

\* a faulty variant of TentWeight: f = - abs(k) / r, the 0.5 left out
TentWeightUnshifted(r, k) == - 2 * Abs(k)

\* f = 0.5 - abs(k) / r, times 2 r
TentWeight(r, k) == r - 2 * Abs(k)

\* the larger of i_range and j_range: the range of the loop that is run
DominantRange(cfg, i, j) ==
    IF i_range(cfg, i) > j_range(cfg, j) THEN i_range(cfg, i) ELSE j_range(cfg, j)

\* the index pair data[...] is read at in step k of the loop for pixel (i, j):
\* [i + k, j + int(k * ij_scale)] or [i + int(k * ij_scale), j + k]
SourceIndex(cfg, i, j, k) ==
    LET ir == i_range(cfg, i)
        jr == j_range(cfg, j)
    IN  IF ir > jr THEN <<i + k, j + int(k * jr, ir)>>
        ELSE <<i + int(k * ir, jr), j + k>>

\* N when the loop over range r is done, times 2 r
TentNorm(r) ==
    SumFn([k \in TentRange(r) |-> TentWeight(r, k)], (-r) \div 2, r \div 2)

\* one pixel of result_a, lines 110-122
SmearedPixel(cfg, data, i, j) ==
    LET r == DominantRange(cfg, i, j)
        source(k) == data[SourceIndex(cfg, i, j, k)[1]][SourceIndex(cfg, i, j, k)[2]]
        acc == SumFn([k \in TentRange(r) |-> TentWeight(r, k) * source(k)],
                     (-r) \div 2, r \div 2)
    IN  acc \div TentNorm(r)

\* a faulty variant of WavelengthPass: a pixel that is not smeared is left as
\* zeros_like made it
WavelengthPassWithoutCopy(cfg, data) ==
    LET xy == 0 .. (cfg.detector_pixels - 1)
    IN  Array([i \in xy |-> [j \in xy |->
            IF PassedThrough(cfg, i, j) THEN 0 ELSE SmearedPixel(cfg, data, i, j)]])

\* the wavelength pass, lines 82-123
WavelengthPass(cfg, data) ==
    LET xy == 0 .. (cfg.detector_pixels - 1)
    IN  Array([i \in xy |-> [j \in xy |->
            IF PassedThrough(cfg, i, j) THEN data[i][j] ELSE SmearedPixel(cfg, data, i, j)]])

\* a faulty variant of Convolve: the kernel is used as built, not divided by norm
ConvolveUnnormalised(data, k) ==
    LET rows == DOMAIN data
        cols == DOMAIN data[0]
        r0 == (k.h - 1) \div 2
        c0 == (k.w - 1) \div 2
        term(r, c, t, u) ==
            LET rr == r + r0 - t
                cc == c + c0 - u
            IN  IF rr \in rows /\ cc \in cols THEN k.num[t][u] * data[rr][cc] ELSE 0
        pixel(r, c) ==
            SumFn([t \in 0 .. (k.h - 1) |->
                     SumFn([u \in 0 .. (k.w - 1) |-> term(r, c, t, u)], 0, k.w - 1)],
                  0, k.h - 1)
    IN  Array([r \in rows |-> [c \in cols |-> pixel(r, c) \div k.den]])

\* scipy.signal.fftconvolve(data, kernel / norm, mode="same"): the linear
\* convolution, cut to the shape of data around its centre
Convolve(data, k) ==
    LET rows == DOMAIN data
        cols == DOMAIN data[0]
        norm == KernelNorm(k)
        r0 == (k.h - 1) \div 2
        c0 == (k.w - 1) \div 2
        term(r, c, t, u) ==
            LET rr == r + r0 - t
                cc == c + c0 - u
            IN  IF rr \in rows /\ cc \in cols THEN k.num[t][u] * data[rr][cc] ELSE 0
        pixel(r, c) ==
            SumFn([t \in 0 .. (k.h - 1) |->
                     SumFn([u \in 0 .. (k.w - 1) |-> term(r, c, t, u)], 0, k.w - 1)],
                  0, k.h - 1)
    IN  Array([r \in rows |-> [c \in cols |-> pixel(r, c) \div norm]])

\* a faulty variant of apply_fast_resolution: the angular convolution is made
\* first and the wavelength pass works on its output
apply_fast_resolutionAngularFirst(exp, cfg, data, wavelengt, alpha, phi) ==
    LET k == Kernel(exp, cfg, alpha, phi)
        angular == (alpha \/ phi) /\ KernelNorm(k) # 0
        data1 == IF angular THEN Convolve(data, k) ELSE data
        passes1 == IF angular THEN <<[pass |-> "angular", input |-> data]>> ELSE <<>>
    IN  IF wavelengt
        THEN [image |-> WavelengthPass(cfg, data1),
              passes |-> Append(passes1, [pass |-> "wavelength", input |-> data1]),
              norm_zero |-> (alpha \/ phi) /\ ~angular]
        ELSE [image |-> data1, passes |-> passes1, norm_zero |-> (alpha \/ phi) /\ ~angular]

\* apply_fast_resolution(data, wavelengt, alpha, phi): the image returned, and the
\* passes made on the way, each with the image it was given
apply_fast_resolution(exp, cfg, data, wavelengt, alpha, phi) ==
    LET data1 == IF wavelengt THEN WavelengthPass(cfg, data) ELSE data
        passes1 == IF wavelengt THEN <<[pass |-> "wavelength", input |-> data]>> ELSE <<>>
        k == Kernel(exp, cfg, alpha, phi)
    IN  IF alpha \/ phi
        THEN IF KernelNorm(k) = 0
             THEN [image |-> data1, passes |-> passes1, norm_zero |-> TRUE]
             ELSE [image |-> Convolve(data1, k),
                   passes |-> Append(passes1, [pass |-> "angular", input |-> data1]),
                   norm_zero |-> FALSE]
        ELSE [image |-> data1, passes |-> passes1, norm_zero |-> FALSE]

---------------------------------------------------------------------------
(* The scattering engine, an external collaborator *)

\* the engine's unit of intensity in the fixed-point scale of the model
IntensityUnit == 8 * 3

\* what the bound parameter distributions add to the engine's response
BindingCode(sim) ==
    SumSeq([n \in 1 .. Len(sim.distributions) |-> n + sim.distributions[n].nbins])

\* sim.runSimulation(); sim.result().array(): the engine is a deterministic
\* function of beam, sample, detector, bindings and background.  This stand-in
\* gives an image of non-negative intensities that differs from pixel to pixel
\* and with each of the inputs the program sets.
EngineImage(sim) ==
    LET code == sim.beam.alpha_i \div 1000 + sim.beam.wavelength \div 100
                + sim.sample.structure + BindingCode(sim)
    IN  Array([i \in 0 .. (sim.detector.det.nbinsy - 1) |->
            [j \in 0 .. (sim.detector.det.nbinsx - 1) |->
                sim.beam.intensity * IntensityUnit * (1 + ((3 * i + 5 * j + code) % 7))
                + sim.background]])

---------------------------------------------------------------------------
(* Simulation.GISANS and Simulation.runGISANS *)

\* the identifiers of patches/__init__.py
BeamWavelength == "*/Beam/Wavelength"
BeamInclinationAngle == "*/Beam/InclinationAngle"
BeamAzimuthalAngle == "*/Beam/AzimuthalAngle"

\* sim.addParameterDistribution(name, distribution, nbins)
ParameterDistribution(name, distribution, nbins) ==
    [name |-> name, distribution |-> distribution, nbins |-> nbins]

\* a faulty variant of GISANS: an axis is bound whenever its bin count is not 0
GISANSBindsNonzero(exp, cfg, smp, resopts) ==
    LET wl == IF resopts.wavelength_bins # 0
              THEN <<ParameterDistribution(BeamWavelength, res_wavelength(exp, cfg),
                                           resopts.wavelength_bins)>>
              ELSE <<>>
        al == IF resopts.alpha_bins # 0
              THEN <<ParameterDistribution(BeamInclinationAngle, res_alpha(exp, cfg),
                                           resopts.alpha_bins)>>
              ELSE <<>>
        ph == IF resopts.phi_bins # 0
              THEN <<ParameterDistribution(BeamAzimuthalAngle, res_phi(exp, cfg),
                                           resopts.phi_bins)>>
              ELSE <<>>
    IN  [beam |-> [intensity |-> exp.I0, wavelength |-> exp.wavelength,
                   alpha_i |-> exp.alpha_i, phi |-> 0],
         sample |-> smp,
         detector |-> detector(exp, cfg),
         includeSpecular |-> TRUE,
         distributions |-> wl \o al \o ph,
         background |-> IF exp.Ibg # 0 THEN exp.Ibg ELSE 0,
         useAvgMaterials |-> smp.avg_material]

\* GISANS(resopts): the simulation request handed to the engine
GISANS(exp, cfg, smp, resopts) ==
    LET wl == IF resopts.wavelength_bins > 0
              THEN <<ParameterDistribution(BeamWavelength, res_wavelength(exp, cfg),
                                           resopts.wavelength_bins)>>
              ELSE <<>>
        al == IF resopts.alpha_bins > 0
              THEN <<ParameterDistribution(BeamInclinationAngle, res_alpha(exp, cfg),
                                           resopts.alpha_bins)>>
              ELSE <<>>
        ph == IF resopts.phi_bins > 0
              THEN <<ParameterDistribution(BeamAzimuthalAngle, res_phi(exp, cfg),
                                           resopts.phi_bins)>>
              ELSE <<>>
    IN  [beam |-> [intensity |-> exp.I0, wavelength |-> exp.wavelength,
                   alpha_i |-> exp.alpha_i, phi |-> 0],
         sample |-> smp,
         detector |-> detector(exp, cfg),
         includeSpecular |-> TRUE,
         distributions |-> wl \o al \o ph,
         background |-> IF exp.Ibg # 0 THEN exp.Ibg ELSE 0,
         useAvgMaterials |-> smp.avg_material]

\* the faults a call can meet: the engine run fails, apply_fast_resolution
\* fails, the reduction of the frame to a cut fails
GISANSFaults == {"none", "engine", "fast_resolution"}
ScanFaults == GISANSFaults \cup {"reduction"}

GISASResult(image) == [kind |-> "GISASResult", simulation |-> image]

Raised(op, stage, point) == [kind |-> "raised", op |-> op, stage |-> stage, point |-> point]

\* self.__class__.__qualname__ of the experiment: GenericSANS, or a subclass of
\* Experiment that defines the abstract methods as GenericSANS does and leaves
\* apply_fast_resolution to the base class
ExperimentClasses == {"GenericSANS", "PlainExperiment"}

\* the method self.experiment.apply_fast_resolution resolves to is the class's own
DefinesFastResolution(exp) == exp.qualname = "GenericSANS"

\* a faulty variant of Experiment.apply_fast_resolution: the base method hands
\* the image back as it got it
Experiment_apply_fast_resolutionReturnsData(exp, data, wavelengt, alpha, phi) ==
    [raised |-> FALSE, image |-> data]

\* Experiment.apply_fast_resolution: the only statement is a raise; its operand
\* NotImplemented(...) calls a constant that is not callable, so the exception
\* that leaves the method is a TypeError and no statement after it is reached
Experiment_apply_fast_resolution(exp, data, wavelengt, alpha, phi) ==
    [raised |-> TRUE, error |-> "TypeError", qualname |-> exp.qualname]

\* a faulty variant of runGISANS: the magnitude of a negative phi bin count
\* decides whether the azimuth convolution is made
runGISANSFastByMagnitude(exp, cfg, smp, resopts, fault) ==
    LET fast_wl == resopts.wavelength_bins < 0
        fast_alpha == resopts.alpha_bins < 0
        fast_phi == resopts.phi_bins < -1
        sim == GISANS(exp, cfg, smp, resopts)
        array == EngineImage(sim)
        fastCall == [data |-> array, wavelengt |-> fast_wl,
                     alpha |-> fast_alpha, phi |-> fast_phi]
    IN  IF fault = "engine"
        THEN [raised |-> TRUE, stage |-> "engine", engineRuns |-> <<sim>>, fastCalls |-> <<>>]
        ELSE IF fast_wl \/ fast_alpha \/ fast_phi
        THEN IF fault = "fast_resolution"
             THEN [raised |-> TRUE, stage |-> "fast_resolution",
                   engineRuns |-> <<sim>>, fastCalls |-> <<fastCall>>]
             ELSE [raised |-> FALSE,
                   result |-> GISASResult(apply_fast_resolution(exp, cfg, array,
                                              fast_wl, fast_alpha, fast_phi).image),
                   engineRuns |-> <<sim>>, fastCalls |-> <<fastCall>>]
        ELSE [raised |-> FALSE, result |-> GISASResult(array),
              engineRuns |-> <<sim>>, fastCalls |-> <<>>]

\* a faulty variant of runGISANS: an axis is marked for the fast convolution
\* whenever its bin count is not 0
runGISANSFastWhenNonzero(exp, cfg, smp, resopts, fault) ==
    LET fast_wl == resopts.wavelength_bins # 0
        fast_alpha == resopts.alpha_bins # 0
        fast_phi == resopts.phi_bins # 0
        sim == GISANS(exp, cfg, smp, resopts)
        array == EngineImage(sim)
        fastCall == [data |-> array, wavelengt |-> fast_wl,
                     alpha |-> fast_alpha, phi |-> fast_phi]
    IN  IF fault = "engine"
        THEN [raised |-> TRUE, stage |-> "engine", engineRuns |-> <<sim>>, fastCalls |-> <<>>]
        ELSE IF fast_wl \/ fast_alpha \/ fast_phi
        THEN IF fault = "fast_resolution"
             THEN [raised |-> TRUE, stage |-> "fast_resolution",
                   engineRuns |-> <<sim>>, fastCalls |-> <<fastCall>>]
             ELSE [raised |-> FALSE,
                   result |-> GISASResult(apply_fast_resolution(exp, cfg, array,
                                              fast_wl, fast_alpha, fast_phi).image),
                   engineRuns |-> <<sim>>, fastCalls |-> <<fastCall>>]
        ELSE [raised |-> FALSE, result |-> GISASResult(array),
              engineRuns |-> <<sim>>, fastCalls |-> <<>>]

\* runGISANS(resopts) on the experiment as it stands: what it returns or raises,
\* the engine runs it started and the apply_fast_resolution calls it made
runGISANS(exp, cfg, smp, resopts, fault) ==
    LET fast_wl == resopts.wavelength_bins < 0
        fast_alpha == resopts.alpha_bins < 0
        fast_phi == resopts.phi_bins < 0
        sim == GISANS(exp, cfg, smp, resopts)
        array == EngineImage(sim)
        fastCall == [data |-> array, wavelengt |-> fast_wl,
                     alpha |-> fast_alpha, phi |-> fast_phi]
    IN  IF fault = "engine"
        THEN [raised |-> TRUE, stage |-> "engine", engineRuns |-> <<sim>>, fastCalls |-> <<>>]
        ELSE IF fast_wl \/ fast_alpha \/ fast_phi
        THEN IF ~DefinesFastResolution(exp)
             THEN LET base == Experiment_apply_fast_resolution(exp, array,
                                  fast_wl, fast_alpha, fast_phi)
                  IN  IF base.raised
                      THEN [raised |-> TRUE, stage |-> "fast_resolution",
                            engineRuns |-> <<sim>>, fastCalls |-> <<fastCall>>]
                      ELSE [raised |-> FALSE, result |-> GISASResult(base.image),
                            engineRuns |-> <<sim>>, fastCalls |-> <<fastCall>>]
             ELSE IF fault = "fast_resolution"
             THEN [raised |-> TRUE, stage |-> "fast_resolution",
                   engineRuns |-> <<sim>>, fastCalls |-> <<fastCall>>]
             ELSE [raised |-> FALSE,
                   result |-> GISASResult(apply_fast_resolution(exp, cfg, array,
                                              fast_wl, fast_alpha, fast_phi).image),
                   engineRuns |-> <<sim>>, fastCalls |-> <<fastCall>>]
        ELSE [raised |-> FALSE, result |-> GISASResult(array),
              engineRuns |-> <<sim>>, fastCalls |-> <<>>]

---------------------------------------------------------------------------
(* Simulation.runOffSpecular: helpers *)

\* an axis argument: None, or an array of 1 .. MaxScan values
NoneAxis == [isNone |-> TRUE, values |-> <<>>]

RECURSIVE SeqsOfLen(_, _)
SeqsOfLen(S, n) ==
    IF n = 0 THEN {<<>>}
    ELSE {Append(q, v) : q \in SeqsOfLen(S, n - 1), v \in S}

AxisArgs(S, n) == {[isNone |-> FALSE, values |-> q] : q \in SeqsOfLen(S, n)}

\* value * ones_like(axis)
Broadcast(value, axis) == [k \in 1 .. Len(axis) |-> value]

\* res.simulation.sum(axis=1)[::-1]
Cut(image) ==
    LET n == Cardinality(DOMAIN image)
        rowsum(i) == SumFn(image[i], 0, Cardinality(DOMAIN image[i]) - 1)
    IN  [m \in 1 .. n |-> rowsum(n - m)]

\* intensity *= alpha_i_j / alpha_i0
Footprint(intensity, alpha_i_j, alpha_i0) ==
    [m \in 1 .. Len(intensity) |-> (intensity[m] * alpha_i_j) \div alpha_i0]

OffSpecResult(alpha_i, wavelengths, data) ==
    [kind |-> "OffSpecResult", alpha_i |-> alpha_i, wavelengths |-> wavelengths,
     simulation |-> data]

\* the resolution options the scans of the model are run with: the two the
\* program names
ScanResOpts == {NO_RES, FAST_RES}

\* the images the caller hands to apply_fast_resolution directly
\* (uniform, a ramp, and a single bright pixel on a dark detector)
TestImages ==
    {[i \in Pixels |-> [j \in Pixels |-> IntensityUnit]],
     [i \in Pixels |-> [j \in Pixels |-> IntensityUnit * (1 + ((3 * i + 5 * j) % 7))]],
     [i \in Pixels |-> [j \in Pixels |->
         IF i = 1 /\ j = 0 THEN IntensityUnit * IntensityUnit ELSE 0]]}

---------------------------------------------------------------------------
(* The state machine *)

NoScan == [alpha_i_axis |-> <<>>, wavelength_axis |-> <<>>, alpha_i0 |-> 0,
           wavelength_0 |-> 0, resopts |-> NO_RES, correct_footprint |-> FALSE,
           j |-> 0, data |-> <<>>]

\* the state after the experiment is constructed and Simulation(sample,
\* experiment) is made
InitProgram ==
    /\ experiment \in [alpha_i : AlphaValues, wavelength : WavelengthValues,
                       I0 : {1}, Ibg : IbgValues,
                       collimation_length : {10000}, detector_distance : {10000},
                       sample_size : SampleSizes, qualname : ExperimentClasses]
    /\ config \in [guide_size : GuideSizes, detector_size : {5 * DetectorPixels},
                   detector_pixels : {DetectorPixels}, center_x_pix : {0},
                   center_y_pix : {0}, dlambda_rel : DlambdaRelValues]
    /\ sample = [structure |-> 1, avg_material |-> TRUE]
    /\ pc = "idle"
    /\ scan = NoScan
    /\ call = [op |-> "none", before |-> experiment, config |-> config]
    /\ ret = [kind |-> "none"]
    /\ engineLog = <<>>
    /\ fastLog = <<>>
    /\ frames = <<>>

\* the caller keeps no derivation
NoDerivation == [kept |-> FALSE]

\* the state after GenericSANS() and Simulation(sample, experiment)
Init == InitProgram /\ experiment.qualname = "GenericSANS" /\ derived = NoDerivation

\* a call starts when no other is in progress and the caller holds no result of
\* an earlier call any more
Idle == pc = "idle" /\ ret.kind = "none"

\* the caller's record of the call it makes
Enter(op, args) ==
    call' = [op |-> op, args |-> args, before |-> experiment, config |-> config]

\* GenericSANS(collimation_length=..., detector_distance=...): the caller builds
\* another instrument; the simulation keeps the one it has
ConstructGenericSANS ==
    /\ Idle
    /\ \E collimation_length \in DistanceArgs, detector_distance \in DistanceArgs :
       \E r \in {GenericSANS(1, 6, collimation_length, detector_distance, 20)} :
            /\ Enter("GenericSANS", [collimation_length |-> collimation_length,
                                     detector_distance |-> detector_distance])
            /\ ret' = IF r.raised THEN Raised("GenericSANS", "construction", 0)
                      ELSE [kind |-> "instance", value |-> r.value]
            /\ engineLog' = <<>> /\ fastLog' = <<>> /\ frames' = <<>>
            /\ UNCHANGED <<experiment, config, sample, derived, pc, scan>>

\* GenericSANS.Config(detector_size=..., detector_pixels=...): the caller builds a
\* configuration and does not install it
ConstructConfig ==
    /\ Idle
    /\ \E detector_size \in DetectorSizeArgs, detector_pixels \in DetectorPixelArgs :
       \E r \in {Config(50, detector_size, detector_pixels, 100, 100, 10)} :
            /\ Enter("Config", [detector_size |-> detector_size,
                                detector_pixels |-> detector_pixels])
            /\ ret' = IF r.raised THEN Raised("Config", "construction", 0)
                      ELSE [kind |-> "config", value |-> r.value]
            /\ engineLog' = <<>> /\ fastLog' = <<>> /\ frames' = <<>>
            /\ UNCHANGED <<experiment, config, sample, derived, pc, scan>>

\* inst.detector
GetDetector ==
    /\ Idle
    /\ Enter("detector", <<>>)
    /\ ret' = [kind |-> "detector", value |-> detector(experiment, config)]
    /\ engineLog' = <<>> /\ fastLog' = <<>> /\ frames' = <<>>
    /\ UNCHANGED <<experiment, config, sample, derived, pc, scan>>

\* inst.res_wavelength
GetResWavelength ==
    /\ Idle
    /\ Enter("res_wavelength", <<>>)
    /\ ret' = [kind |-> "distribution", value |-> res_wavelength(experiment, config)]
    /\ engineLog' = <<>> /\ fastLog' = <<>> /\ frames' = <<>>
    /\ UNCHANGED <<experiment, config, sample, derived, pc, scan>>

\* inst.res_alpha
GetResAlpha ==
    /\ Idle
    /\ Enter("res_alpha", <<>>)
    /\ ret' = [kind |-> "distribution", value |-> res_alpha(experiment, config)]
    /\ engineLog' = <<>> /\ fastLog' = <<>> /\ frames' = <<>>
    /\ UNCHANGED <<experiment, config, sample, derived, pc, scan>>

\* inst.res_phi
GetResPhi ==
    /\ Idle
    /\ Enter("res_phi", <<>>)
    /\ ret' = [kind |-> "distribution", value |-> res_phi(experiment, config)]
    /\ engineLog' = <<>> /\ fastLog' = <<>> /\ frames' = <<>>
    /\ UNCHANGED <<experiment, config, sample, derived, pc, scan>>

\* inst.apply_fast_resolution(data, wavelengt, alpha, phi)
CallApplyFastResolution ==
    /\ Idle
    /\ \E data \in TestImages, wavelengt \in BOOLEAN, alpha \in BOOLEAN, phi \in BOOLEAN :
       \E r \in {apply_fast_resolution(experiment, config, data, wavelengt, alpha, phi)} :
            /\ Enter("apply_fast_resolution",
                     [data |-> data, wavelengt |-> wavelengt, alpha |-> alpha, phi |-> phi])
            /\ ret' = [kind |-> "image", image |-> r.image, passes |-> r.passes,
                       norm_zero |-> r.norm_zero]
            /\ engineLog' = <<>> /\ fastLog' = <<>> /\ frames' = <<>>
            /\ UNCHANGED <<experiment, config, sample, derived, pc, scan>>

\* a faulty variant of CallGISANS: building the request uses up the
\* experiment's background
CallGISANSClearsBackground ==
    /\ Idle
    /\ \E resopts \in ResolutionOptions :
        /\ Enter("GISANS", [resopts |-> resopts])
        /\ ret' = [kind |-> "simulation",
                   sim |-> GISANS(experiment, config, sample, resopts)]
        /\ experiment' = [experiment EXCEPT !.Ibg = 0]
        /\ engineLog' = <<>> /\ fastLog' = <<>> /\ frames' = <<>>
        /\ UNCHANGED <<config, sample, derived, pc, scan>>

\* sim.GISANS(resopts)
CallGISANS ==
    /\ Idle
    /\ \E resopts \in ResolutionOptions :
        /\ Enter("GISANS", [resopts |-> resopts])
        /\ ret' = [kind |-> "simulation",
                   sim |-> GISANS(experiment, config, sample, resopts)]
        /\ engineLog' = <<>> /\ fastLog' = <<>> /\ frames' = <<>>
        /\ UNCHANGED <<experiment, config, sample, derived, pc, scan>>

\* sim.runGISANS(resopts)
CallRunGISANS ==
    /\ Idle
    /\ \E resopts \in ResolutionOptions, fault \in GISANSFaults :
       \E r \in {runGISANS(experiment, config, sample, resopts, fault)} :
            /\ Enter("runGISANS", [resopts |-> resopts])
            /\ ret' = IF r.raised THEN Raised("runGISANS", r.stage, 0) ELSE r.result
            /\ engineLog' = r.engineRuns
            /\ fastLog' = r.fastCalls
            /\ frames' = <<>>
            /\ UNCHANGED <<experiment, config, sample, derived, pc, scan>>

\* sim.runOffSpecular(alpha_i_axis, wavelength_axis, resopts, correct_footprint),
\* lines 160-167 and the start of the loop
CallRunOffSpecular ==
    /\ Idle
    /\ \E n \in 1 .. MaxScan :
       \E a \in AxisArgs(AlphaValues, n) \cup {NoneAxis},
          w \in AxisArgs(WavelengthValues, n) \cup {NoneAxis},
          resopts \in ScanResOpts, correct_footprint \in BOOLEAN :
        LET alpha_i0 == experiment.alpha_i
            wavelength_0 == experiment.wavelength
            alpha_i_axis == IF a.isNone THEN Broadcast(alpha_i0, w.values) ELSE a.values
            wavelength_axis == IF w.isNone THEN Broadcast(wavelength_0, alpha_i_axis)
                               ELSE w.values
        IN  /\ Enter("runOffSpecular",
                     [alpha_i_axis |-> a, wavelength_axis |-> w, resopts |-> resopts,
                      correct_footprint |-> correct_footprint])
            /\ scan' = [alpha_i_axis |-> alpha_i_axis, wavelength_axis |-> wavelength_axis,
                        alpha_i0 |-> alpha_i0, wavelength_0 |-> wavelength_0,
                        resopts |-> resopts, correct_footprint |-> correct_footprint,
                        j |-> 1, data |-> <<>>]
            /\ engineLog' = <<>> /\ fastLog' = <<>> /\ frames' = <<>>
            /\ IF a.isNone /\ w.isNone
               THEN \* zip() over two 0-d arrays raises TypeError
                    /\ pc' = "idle"
                    /\ ret' = Raised("runOffSpecular", "zip", 0)
               ELSE /\ pc' = "scan"
                    /\ ret' = [kind |-> "pending"]
            /\ UNCHANGED <<experiment, config, sample, derived>>

\* a faulty variant of ScanPoint: a scan point that fails is passed over, its row
\* left out, and the scan goes on
ScanPointSkipsFailure ==
    /\ pc = "scan"
    /\ scan.j <= Min(Len(scan.alpha_i_axis), Len(scan.wavelength_axis))
    /\ \E fault \in ScanFaults :
       \E exp1 \in {[experiment EXCEPT !.alpha_i = scan.alpha_i_axis[scan.j],
                                       !.wavelength = scan.wavelength_axis[scan.j]]} :
       \E r \in {runGISANS(exp1, config, sample, scan.resopts, fault)} :
        LET alpha_i_j == scan.alpha_i_axis[scan.j]
            cut == Cut(r.result.simulation)
            intensity == IF scan.correct_footprint
                         THEN Footprint(cut, alpha_i_j, scan.alpha_i0)
                         ELSE cut
        IN  /\ experiment' = exp1
            /\ engineLog' = engineLog \o r.engineRuns
            /\ fastLog' = fastLog \o r.fastCalls
            /\ pc' = "scan"
            /\ ret' = ret
            /\ IF r.raised
               THEN /\ frames' = frames
                    /\ scan' = [scan EXCEPT !.j = scan.j + 1]
               ELSE IF fault = "reduction"
               THEN /\ frames' = Append(frames, r.result.simulation)
                    /\ scan' = [scan EXCEPT !.j = scan.j + 1]
               ELSE /\ frames' = Append(frames, r.result.simulation)
                    /\ scan' = [scan EXCEPT !.j = scan.j + 1,
                                            !.data = Append(scan.data, intensity)]
    /\ UNCHANGED <<config, sample, derived, call>>

\* a faulty variant of ScanPoint: the simulation of a scan point is built before
\* the experiment is set to the point's alpha_i and wavelength
ScanPointStaleBeam ==
    /\ pc = "scan"
    /\ scan.j <= Min(Len(scan.alpha_i_axis), Len(scan.wavelength_axis))
    /\ \E fault \in ScanFaults :
       \E exp1 \in {[experiment EXCEPT !.alpha_i = scan.alpha_i_axis[scan.j],
                                       !.wavelength = scan.wavelength_axis[scan.j]]} :
       \E r \in {runGISANS(experiment, config, sample, scan.resopts, fault)} :
        LET alpha_i_j == scan.alpha_i_axis[scan.j]
            cut == Cut(r.result.simulation)
            intensity == IF scan.correct_footprint
                         THEN Footprint(cut, alpha_i_j, scan.alpha_i0)
                         ELSE cut
        IN  /\ experiment' = exp1
            /\ engineLog' = engineLog \o r.engineRuns
            /\ fastLog' = fastLog \o r.fastCalls
            /\ IF r.raised
               THEN /\ pc' = "idle"
                    /\ ret' = Raised("runOffSpecular", r.stage, scan.j)
                    /\ UNCHANGED <<scan, frames>>
               ELSE IF fault = "reduction"
               THEN /\ pc' = "idle"
                    /\ ret' = Raised("runOffSpecular", "reduction", scan.j)
                    /\ frames' = Append(frames, r.result.simulation)
                    /\ UNCHANGED scan
               ELSE /\ pc' = "scan"
                    /\ ret' = ret
                    /\ frames' = Append(frames, r.result.simulation)
                    /\ scan' = [scan EXCEPT !.j = scan.j + 1,
                                            !.data = Append(scan.data, intensity)]
    /\ UNCHANGED <<config, sample, derived, call>>

\* a faulty variant of ScanPoint: the footprint factor refers to the alpha_i the
\* experiment holds when the point starts, the previous point's
ScanPointFootprintFromPrevious ==
    /\ pc = "scan"
    /\ scan.j <= Min(Len(scan.alpha_i_axis), Len(scan.wavelength_axis))
    /\ \E fault \in ScanFaults :
       \E exp1 \in {[experiment EXCEPT !.alpha_i = scan.alpha_i_axis[scan.j],
                                       !.wavelength = scan.wavelength_axis[scan.j]]} :
       \E r \in {runGISANS(exp1, config, sample, scan.resopts, fault)} :
        LET alpha_i_j == scan.alpha_i_axis[scan.j]
            cut == Cut(r.result.simulation)
            intensity == IF scan.correct_footprint
                         THEN Footprint(cut, alpha_i_j, experiment.alpha_i)
                         ELSE cut
        IN  /\ experiment' = exp1
            /\ engineLog' = engineLog \o r.engineRuns
            /\ fastLog' = fastLog \o r.fastCalls
            /\ IF r.raised
               THEN /\ pc' = "idle"
                    /\ ret' = Raised("runOffSpecular", r.stage, scan.j)
                    /\ UNCHANGED <<scan, frames>>
               ELSE IF fault = "reduction"
               THEN /\ pc' = "idle"
                    /\ ret' = Raised("runOffSpecular", "reduction", scan.j)
                    /\ frames' = Append(frames, r.result.simulation)
                    /\ UNCHANGED scan
               ELSE /\ pc' = "scan"
                    /\ ret' = ret
                    /\ frames' = Append(frames, r.result.simulation)
                    /\ scan' = [scan EXCEPT !.j = scan.j + 1,
                                            !.data = Append(scan.data, intensity)]
    /\ UNCHANGED <<config, sample, derived, call>>

\* one iteration of the loop, lines 169-177
ScanPoint ==
    /\ pc = "scan"
    /\ scan.j <= Min(Len(scan.alpha_i_axis), Len(scan.wavelength_axis))
    /\ \E fault \in ScanFaults :
       \E exp1 \in {[experiment EXCEPT !.alpha_i = scan.alpha_i_axis[scan.j],
                                       !.wavelength = scan.wavelength_axis[scan.j]]} :
       \E r \in {runGISANS(exp1, config, sample, scan.resopts, fault)} :
        LET alpha_i_j == scan.alpha_i_axis[scan.j]
            cut == Cut(r.result.simulation)
            intensity == IF scan.correct_footprint
                         THEN Footprint(cut, alpha_i_j, scan.alpha_i0)
                         ELSE cut
        IN  /\ experiment' = exp1
            /\ engineLog' = engineLog \o r.engineRuns
            /\ fastLog' = fastLog \o r.fastCalls
            /\ IF r.raised
               THEN /\ pc' = "idle"
                    /\ ret' = Raised("runOffSpecular", r.stage, scan.j)
                    /\ UNCHANGED <<scan, frames>>
               ELSE IF fault = "reduction"
               THEN /\ pc' = "idle"
                    /\ ret' = Raised("runOffSpecular", "reduction", scan.j)
                    /\ frames' = Append(frames, r.result.simulation)
                    /\ UNCHANGED scan
               ELSE /\ pc' = "scan"
                    /\ ret' = ret
                    /\ frames' = Append(frames, r.result.simulation)
                    /\ scan' = [scan EXCEPT !.j = scan.j + 1,
                                            !.data = Append(scan.data, intensity)]
    /\ UNCHANGED <<config, sample, derived, call>>

\* a faulty variant of ScanFinish: the scan returns with the experiment as the
\* last scan point left it
ScanFinishWithoutRestore ==
    /\ pc = "scan"
    /\ scan.j > Min(Len(scan.alpha_i_axis), Len(scan.wavelength_axis))
    /\ ret' = OffSpecResult(scan.alpha_i_axis, scan.wavelength_axis, scan.data)
    /\ pc' = "idle"
    /\ UNCHANGED <<experiment, config, sample, derived, scan, call, engineLog, fastLog, frames>>

\* after the loop, lines 178-185
ScanFinish ==
    /\ pc = "scan"
    /\ scan.j > Min(Len(scan.alpha_i_axis), Len(scan.wavelength_axis))
    /\ experiment' = [experiment EXCEPT !.alpha_i = scan.alpha_i0,
                                        !.wavelength = scan.wavelength_0]
    /\ ret' = OffSpecResult(scan.alpha_i_axis, scan.wavelength_axis, scan.data)
    /\ pc' = "idle"
    /\ UNCHANGED <<config, sample, derived, scan, call, engineLog, fastLog, frames>>

\* the caller is done with what the last call returned or raised
Consume ==
    /\ pc = "idle"
    /\ ret.kind # "none"
    /\ ret' = [kind |-> "none"]
    /\ call' = [op |-> "none", before |-> experiment, config |-> config]
    /\ scan' = NoScan
    /\ engineLog' = <<>> /\ fastLog' = <<>> /\ frames' = <<>>
    /\ UNCHANGED <<experiment, config, sample, derived, pc>>

Next ==
    \/ Consume
    \/ ConstructGenericSANS
    \/ ConstructConfig
    \/ GetDetector
    \/ GetResWavelength
    \/ GetResAlpha
    \/ GetResPhi
    \/ CallApplyFastResolution
    \/ CallGISANS
    \/ CallRunGISANS
    \/ CallRunOffSpecular
    \/ ScanPoint
    \/ ScanFinish

Spec == Init /\ [][Next]_vars

---------------------------------------------------------------------------
(* Deriving the distributions and the kernel again, between other calls *)

\* the three distributions and the kernels of the three angular branches
Derivation(exp, cfg) ==
    [res_wavelength |-> res_wavelength(exp, cfg),
     res_alpha |-> res_alpha(exp, cfg),
     res_phi |-> res_phi(exp, cfg),
     kernel_alpha_phi |-> Kernel(exp, cfg, TRUE, TRUE),
     kernel_phi |-> Kernel(exp, cfg, FALSE, TRUE),
     kernel_alpha |-> Kernel(exp, cfg, TRUE, FALSE)]

\* the instruments on which the derivation is repeated
DeriveGuideSizes == {18}
DeriveSampleSizes == {11}

\* the caller derives distributions and kernels right after construction and
\* keeps them
InitDerive ==
    /\ InitProgram
    /\ experiment.qualname = "GenericSANS"
    /\ config.guide_size \in DeriveGuideSizes
    /\ experiment.sample_size \in DeriveSampleSizes
    /\ derived = [kept |-> TRUE, experiment |-> experiment, config |-> config,
                  value |-> Derivation(experiment, config)]

\* a faulty variant of DeriveAgain: the derivation uses the beam of the last
\* simulation that was run, where one was run
DeriveAgainFromLastRun ==
    /\ pc = "idle"
    /\ ret.kind \in {"none", "GISASResult", "OffSpecResult", "raised"}
    /\ call' = [op |-> "derive", args |-> <<>>, before |-> experiment, config |-> config]
    /\ ret' = [kind |-> "derived",
               value |-> Derivation(
                   IF engineLog = <<>> THEN experiment
                   ELSE [experiment EXCEPT
                            !.alpha_i = engineLog[Len(engineLog)].beam.alpha_i,
                            !.wavelength = engineLog[Len(engineLog)].beam.wavelength],
                   config)]
    /\ UNCHANGED <<experiment, config, sample, derived, pc, scan, engineLog, fastLog, frames>>

\* inst.res_wavelength, inst.res_alpha, inst.res_phi and the kernels once more,
\* whatever was called before and whether or not its result is still held
DeriveAgain ==
    /\ pc = "idle"
    /\ ret.kind \in {"none", "GISASResult", "OffSpecResult", "raised"}
    /\ call' = [op |-> "derive", args |-> <<>>, before |-> experiment, config |-> config]
    /\ ret' = [kind |-> "derived", value |-> Derivation(experiment, config)]
    /\ UNCHANGED <<experiment, config, sample, derived, pc, scan, engineLog, fastLog, frames>>

NextDerive ==
    \/ Consume
    \/ DeriveAgain
    \/ CallRunGISANS
    \/ CallRunOffSpecular
    \/ ScanPoint
    \/ ScanFinish

SpecDerive == InitDerive /\ [][NextDerive]_vars

---------------------------------------------------------------------------
(* An experiment that leaves apply_fast_resolution to the base class *)

\* the state after Simulation(sample, experiment) with such an experiment
InitPlain ==
    /\ InitProgram
    /\ experiment.qualname = "PlainExperiment"
    /\ derived = NoDerivation

NextPlain ==
    \/ Consume
    \/ GetDetector
    \/ GetResWavelength
    \/ GetResAlpha
    \/ GetResPhi
    \/ CallGISANS
    \/ CallRunGISANS
    \/ CallRunOffSpecular
    \/ ScanPoint
    \/ ScanFinish

SpecPlain == InitPlain /\ [][NextPlain]_vars

---------------------------------------------------------------------------
(* Properties *)

\* the experiment's alpha_i and wavelength are what they were when the last
\* call was made
BeamRestored ==
    /\ experiment.alpha_i = call.before.alpha_i
    /\ experiment.wavelength = call.before.wavelength

\* runOffSpecular raised at a scan point
ScanRaised == call.op = "runOffSpecular" /\ ret.kind = "raised" /\ ret.point >= 1

\* runOffSpecular returned normally
ScanReturned == call.op = "runOffSpecular" /\ ret.kind = "OffSpecResult"

\* C1: after runOffSpecular raises at scan point k (engine run, fast-resolution
\* step or cut reduction), the experiment's alpha_i and wavelength equal the
\* values they had immediately before the call.
C1_RestoredAfterRaise == ScanRaised => BeamRestored

\* C2: after runOffSpecular returns normally from a non-empty scan, the
\* experiment's alpha_i and wavelength equal the values they had immediately
\* before the call, whatever the axes contained.
C2_RestoredAfterReturn == ScanReturned => BeamRestored

\* a scan has returned whose last point differed from the pre-call state in
\* both alpha_i and wavelength
C2_Witness ==
    /\ ScanReturned
    /\ Len(scan.alpha_i_axis) >= 1
    /\ scan.alpha_i_axis[Len(scan.alpha_i_axis)] # call.before.alpha_i
    /\ scan.wavelength_axis[Len(scan.wavelength_axis)] # call.before.wavelength
    /\ Len(engineLog) = Len(scan.alpha_i_axis)

\* the bindings of a simulation request that carry the identifier name
BindingsOf(sim, name) ==
    {n \in 1 .. Len(sim.distributions) : sim.distributions[n].name = name}

\* an axis of a simulation request is bound exactly when bins > 0, and then
\* once, under name, with distribution and bins
AxisBoundRight(sim, name, distribution, bins) ==
    /\ (bins > 0) <=> (BindingsOf(sim, name) # {})
    /\ Cardinality(BindingsOf(sim, name)) <= 1
    /\ \A n \in BindingsOf(sim, name) :
           sim.distributions[n] = ParameterDistribution(name, distribution, bins)

\* C3: in GISANS, each of the three axes is bound to the engine if and only if
\* its bin count is > 0, under its own identifier, with its own distribution
\* and exactly its bin count; an axis with bin count 0 or < 0 is never bound.
C3_BindsPositiveAxes ==
    (call.op = "GISANS" /\ ret.kind = "simulation") =>
        LET ro == call.args.resopts
        IN  /\ AxisBoundRight(ret.sim, BeamWavelength,
                              res_wavelength(experiment, config), ro.wavelength_bins)
            /\ AxisBoundRight(ret.sim, BeamInclinationAngle,
                              res_alpha(experiment, config), ro.alpha_bins)
            /\ AxisBoundRight(ret.sim, BeamAzimuthalAngle,
                              res_phi(experiment, config), ro.phi_bins)
            /\ \A n \in 1 .. Len(ret.sim.distributions) :
                   ret.sim.distributions[n].name \in
                       {BeamWavelength, BeamInclinationAngle, BeamAzimuthalAngle}

\* GISANS has built a request with one axis bound, one marked negative and one
\* at zero
C3_Witness ==
    /\ call.op = "GISANS" /\ ret.kind = "simulation"
    /\ call.args.resopts = [wavelength_bins |-> -1, alpha_bins |-> 0, phi_bins |-> 2]
    /\ Len(ret.sim.distributions) = 1
    /\ ret.sim.distributions[1].name = BeamAzimuthalAngle

\* some bin count of resopts is negative
AnyNegative(ro) == ro.wavelength_bins < 0 \/ ro.alpha_bins < 0 \/ ro.phi_bins < 0

\* C4: runGISANS runs the engine exactly once; it then calls
\* apply_fast_resolution exactly once if and only if some bin count is
\* negative, on the engine's image and with each flag true exactly when that
\* axis's bin count is < 0, the engine's request binding the positive axes only;
\* when no bin count is negative the returned image is the engine's image.
C4_EngineOnceFastIffNegative ==
    (call.op = "runGISANS" /\ ret.kind \in {"GISASResult", "raised"}) =>
        LET ro == call.args.resopts
        IN  /\ Len(engineLog) = 1
            /\ engineLog[1] = GISANS(experiment, config, sample, ro)
            /\ Len(fastLog) <= 1
            /\ ret.kind = "GISASResult" => (Len(fastLog) = 1 <=> AnyNegative(ro))
            /\ \A n \in 1 .. Len(fastLog) :
                   /\ AnyNegative(ro)
                   /\ fastLog[n].data = EngineImage(engineLog[1])
                   /\ fastLog[n].wavelengt = (ro.wavelength_bins < 0)
                   /\ fastLog[n].alpha = (ro.alpha_bins < 0)
                   /\ fastLog[n].phi = (ro.phi_bins < 0)
            /\ (ret.kind = "GISASResult" /\ ~AnyNegative(ro)) =>
                   ret.simulation = EngineImage(engineLog[1])

\* runGISANS has returned from a request of mixed signs: one axis sampled by
\* the engine, one convolved afterwards
C4_Witness ==
    /\ call.op = "runGISANS" /\ ret.kind = "GISASResult"
    /\ call.args.resopts = [wavelength_bins |-> 2, alpha_bins |-> 0, phi_bins |-> -1]
    /\ Len(engineLog) = 1 /\ Len(fastLog) = 1
    /\ Len(engineLog[1].distributions) = 1
    /\ ret.simulation # EngineImage(engineLog[1])

\* apply_fast_resolution has returned to the caller
FastReturned == call.op = "apply_fast_resolution" /\ ret.kind = "image"

\* C5: in apply_fast_resolution, whenever the raw sum of the angular kernel is
\* exactly zero, the image returned is the image the caller passed in, for
\* every combination of the wavelength, alpha and phi flags.
C5_ZeroNormReturnsInput ==
    (FastReturned /\ ret.norm_zero) => ret.image = call.args.data

C10_PlateauClampedToZero ==
    (call.op = "res_phi" /\ ret.kind = "distribution"
        /\ experiment.sample_size >= config.guide_size) =>
            /\ ret.value.type = "Trapezoid"
            /\ ret.value.middle = 0

\* the k-th entries of the two scan axes set on the experiment the call found
AtScanPoint(k) ==
    [call.before EXCEPT !.alpha_i = scan.alpha_i_axis[k],
                        !.wavelength = scan.wavelength_axis[k]]

\* the simulations started so far are those of the scan points 1, 2, ... in
\* order, one each
RunInScanOrder ==
    \A m \in 1 .. Len(engineLog) :
        /\ m <= Len(scan.alpha_i_axis)
        /\ engineLog[m] = GISANS(AtScanPoint(m), config, sample, scan.resopts)

\* C6: when scan point k of runOffSpecular raises, the exception reaches the
\* caller at once: the scan is over, the simulations started are those of the
\* points 1 .. k, one each and none after k, and no OffSpecResult is returned;
\* and a scan that goes on or returns has had no failing point.
C6_FailFast ==
    /\ ScanRaised =>
           /\ pc = "idle"
           /\ ~ENABLED ScanPoint
           /\ ~ENABLED ScanFinish
           /\ Len(engineLog) = ret.point
           /\ RunInScanOrder
           /\ Len(scan.data) = ret.point - 1
    /\ (call.op = "runOffSpecular" /\ ret.kind \in {"pending", "OffSpecResult"}) =>
           /\ Len(frames) = Len(engineLog)
           /\ Len(scan.data) = Len(frames)
           /\ RunInScanOrder

\* the second point of a scan has raised after the first had delivered its row
C6_Witness ==
    /\ ScanRaised
    /\ ret.point = 2
    /\ Len(scan.alpha_i_axis) = 2
    /\ Len(engineLog) = 2
    /\ Len(scan.data) = 1

\* an axis argument as the scan uses it: None is the pre-scan value, n times
AxisUsed(arg, value, n) == IF arg.isNone THEN [k \in 1 .. n |-> value] ELSE arg.values

\* C7: for axes of equal length n >= 1 (None counting as the pre-scan value
\* repeated n times) runOffSpecular makes exactly n simulations in scan-index
\* order; when the k-th runs, the experiment's alpha_i and wavelength are the
\* k-th entries of the axes; row k of the returned data is the cut of the k-th
\* simulation's image (scaled by the footprint factor when correct_footprint).
C7_OneSimulationPerPoint ==
    /\ (pc = "scan" /\ scan.j > 1) => experiment = AtScanPoint(scan.j - 1)
    /\ ScanReturned =>
        LET n == Len(scan.alpha_i_axis)
        IN  /\ n >= 1
            /\ Len(scan.wavelength_axis) = n
            /\ scan.alpha_i_axis = AxisUsed(call.args.alpha_i_axis, call.before.alpha_i, n)
            /\ scan.wavelength_axis =
                   AxisUsed(call.args.wavelength_axis, call.before.wavelength, n)
            /\ ret.alpha_i = scan.alpha_i_axis
            /\ ret.wavelengths = scan.wavelength_axis
            /\ Len(engineLog) = n
            /\ Len(frames) = n
            /\ Len(ret.simulation) = n
            /\ \A k \in 1 .. n :
                   /\ engineLog[k].beam.alpha_i = scan.alpha_i_axis[k]
                   /\ engineLog[k].beam.wavelength = scan.wavelength_axis[k]
                   /\ frames[k] = runGISANS(AtScanPoint(k), config, sample,
                                            call.args.resopts, "none").result.simulation
                   /\ ret.simulation[k] =
                          IF call.args.correct_footprint
                          THEN Footprint(Cut(frames[k]), scan.alpha_i_axis[k],
                                         call.before.alpha_i)
                          ELSE Cut(frames[k])

\* a scan of two points that differ in alpha_i and in wavelength has returned two
\* different rows
C7_Witness ==
    /\ ScanReturned
    /\ Len(ret.simulation) = 2
    /\ scan.alpha_i_axis[1] # scan.alpha_i_axis[2]
    /\ scan.wavelength_axis[1] # scan.wavelength_axis[2]
    /\ ret.simulation[1] # ret.simulation[2]
    /\ scan.alpha_i_axis[1] # call.before.alpha_i

\* the operations C9 names
ReadOnlyOps ==
    {"detector", "res_wavelength", "res_alpha", "res_phi", "apply_fast_resolution",
     "GISANS", "runGISANS"}

\* C9: GISANS, runGISANS, apply_fast_resolution and the detector, res_wavelength,
\* res_alpha and res_phi properties leave the experiment's beam state (alpha_i,
\* wavelength, I0, Ibg) and its configuration unchanged, for every
\* ResolutionOptions value.
C9_OnlyScanChangesBeam ==
    [][(call'.op \in ReadOnlyOps /\ call' # call) =>
           /\ experiment'.alpha_i = experiment.alpha_i
           /\ experiment'.wavelength = experiment.wavelength
           /\ experiment'.I0 = experiment.I0
           /\ experiment'.Ibg = experiment.Ibg
           /\ config' = config]_vars

\* runGISANS has returned an image convolved on all three axes, on an experiment
\* with a background, and the experiment is as the call found it
C9_Witness ==
    /\ call.op = "runGISANS" /\ ret.kind = "GISASResult"
    /\ call.args.resopts = [wavelength_bins |-> -1, alpha_bins |-> -1, phi_bins |-> -1]
    /\ Len(fastLog) = 1
    /\ experiment.Ibg # 0
    /\ experiment = call.before
    /\ config = call.config

\* the reduced cut of a frame: entry m is the sum of the frame's row n - m
ReducedCut(frame) ==
    LET n == Cardinality(DOMAIN frame)
    IN  [m \in 1 .. n |-> SumFn(frame[n - m], 0, n - 1)]

\* C11: with correct_footprint true, row k of the data runOffSpecular returns is
\* the reduced cut of scan point k times alpha_i_axis[k] / alpha_i0, alpha_i0
\* being the experiment's alpha_i before the scan; with correct_footprint false
\* row k is the reduced cut itself.
C11_FootprintFromPreScanAngle ==
    ScanReturned =>
        \A k \in 1 .. Len(ret.simulation) :
            LET cut == ReducedCut(frames[k])
            IN  /\ Len(ret.simulation[k]) = Len(cut)
                /\ \A m \in 1 .. Len(cut) :
                       ret.simulation[k][m] =
                           IF call.args.correct_footprint
                           THEN (cut[m] * scan.alpha_i_axis[k]) \div call.before.alpha_i
                           ELSE cut[m]

\* a footprint-corrected scan has returned whose first point moved alpha_i away
\* from the pre-scan value and whose second point is scaled by a factor other
\* than 1
C11_Witness ==
    /\ ScanReturned
    /\ call.args.correct_footprint
    /\ Len(ret.simulation) = 2
    /\ scan.alpha_i_axis[1] # call.before.alpha_i
    /\ scan.alpha_i_axis[2] # call.before.alpha_i
    /\ ret.simulation[2] # ReducedCut(frames[2])

\* two bin counts of one axis that differ at most in the magnitude of a
\* negative count
SameStrategy(a, b) == (a < 0 /\ b < 0) \/ a = b

\* two ResolutionOptions that differ only in the magnitudes of their negative
\* bin counts
DifferInNegativeMagnitudeOnly(ro1, ro2) ==
    /\ SameStrategy(ro1.wavelength_bins, ro2.wavelength_bins)
    /\ SameStrategy(ro1.alpha_bins, ro2.alpha_bins)
    /\ SameStrategy(ro1.phi_bins, ro2.phi_bins)

\* C12: two ResolutionOptions that differ only in the magnitude of their
\* negative bin counts make runGISANS issue the same engine bindings and the
\* same apply_fast_resolution flags, and return the same image.
C12_NegativeMagnitudeIrrelevant ==
    (call.op = "runGISANS" /\ ret.kind = "GISASResult") =>
        \A ro2 \in ResolutionOptions :
            DifferInNegativeMagnitudeOnly(call.args.resopts, ro2) =>
                \A r2 \in {runGISANS(experiment, config, sample, ro2, "none")} :
                    /\ ~r2.raised
                    /\ Len(r2.engineRuns) = Len(engineLog)
                    /\ \A n \in 1 .. Len(engineLog) :
                           r2.engineRuns[n].distributions = engineLog[n].distributions
                    /\ Len(r2.fastCalls) = Len(fastLog)
                    /\ \A n \in 1 .. Len(fastLog) :
                           /\ r2.fastCalls[n].wavelengt = fastLog[n].wavelengt
                           /\ r2.fastCalls[n].alpha = fastLog[n].alpha
                           /\ r2.fastCalls[n].phi = fastLog[n].phi
                    /\ r2.result.simulation = ret.simulation

\* runGISANS has returned a convolved image for negative bin counts of two
\* different magnitudes beside a positive one
C12_Witness ==
    /\ call.op = "runGISANS" /\ ret.kind = "GISASResult"
    /\ call.args.resopts = [wavelength_bins |-> 2, alpha_bins |-> -3, phi_bins |-> -1]
    /\ Len(fastLog) = 1
    /\ fastLog[1].alpha /\ fastLog[1].phi /\ ~fastLog[1].wavelengt
    /\ ret.simulation # fastLog[1].data

\* C13: res_wavelength is a Trapezoid centred at the experiment's wavelength,
\* with plateau width 0, whose full width (rising flank, plateau and falling
\* flank together) equals dlambda_rel times the wavelength.
C13_FullWidthIsRelativeSpread ==
    (call.op = "res_wavelength" /\ ret.kind = "distribution") =>
        /\ ret.value.type = "Trapezoid"
        /\ ret.value.center = experiment.wavelength
        /\ ret.value.middle = 0
        /\ ret.value.left + ret.value.middle + ret.value.right
               = int(config.dlambda_rel * experiment.wavelength, 100)

\* C14: constructing a GenericSANS with a zero or negative detector_distance or
\* collimation_length, or a Config with detector_size or detector_pixels of
\* zero, raises at construction: no such instrument or configuration is ever
\* handed to the caller.
C14_RejectsDegenerateGeometry ==
    /\ (call.op = "GenericSANS" /\ ret.kind = "instance") =>
           /\ ret.value.collimation_length > 0
           /\ ret.value.detector_distance > 0
    /\ (call.op = "Config" /\ ret.kind = "config") =>
           /\ ret.value.detector_size # 0
           /\ ret.value.detector_pixels # 0

\* the pixels of an n x n image at which a kernel of shape h x w lies wholly
\* inside the image
Interior(n, h, w) ==
    {p \in (0 .. (n - 1)) \X (0 .. (n - 1)) :
        /\ p[1] + ((h - 1) \div 2) - (h - 1) >= 0
        /\ p[1] + ((h - 1) \div 2) <= n - 1
        /\ p[2] + ((w - 1) \div 2) - (w - 1) >= 0
        /\ p[2] + ((w - 1) \div 2) <= n - 1}

\* every pixel of the image has the value of pixel (0, 0)
Uniform(image) == \A i \in DOMAIN image : \A j \in DOMAIN image[i] : image[i][j] = image[0][0]

\* C15: for a non-degenerate geometry the kernel apply_fast_resolution convolves
\* with has weights that sum to 1, in each of the three angular branches: the
\* weights are the raw weights over their positive sum, so that a uniform image
\* keeps its value wherever the kernel lies wholly inside it.
C15_KernelSumsToOne ==
    (FastReturned /\ ~call.args.wavelengt /\ (call.args.alpha \/ call.args.phi)
        /\ ~ret.norm_zero) =>
        LET k == Kernel(experiment, config, call.args.alpha, call.args.phi)
            norm == SumFn([t \in 0 .. (k.h - 1) |-> SumFn(k.num[t], 0, k.w - 1)],
                          0, k.h - 1)
            n == config.detector_pixels
        IN  /\ norm > 0
            /\ \A t \in 0 .. (k.h - 1) : \A u \in 0 .. (k.w - 1) : k.num[t][u] >= 0
            /\ Uniform(call.args.data) =>
                   \A p \in Interior(n, k.h, k.w) :
                       ret.image[p[1]][p[2]] = call.args.data[p[1]][p[2]]

\* a uniform image has been convolved with a kernel of more than one row and
\* more than one column: it keeps its value inside and loses intensity at the
\* edge
C15_Witness ==
    /\ FastReturned /\ ~call.args.wavelengt /\ call.args.alpha /\ call.args.phi
    /\ ~ret.norm_zero
    /\ Uniform(call.args.data)
    /\ kernel_height(experiment, config) > 1
    /\ kernel_width(experiment, config) > 1
    /\ Interior(config.detector_pixels, kernel_height(experiment, config),
                kernel_width(experiment, config)) # {}
    /\ ret.image # call.args.data

\* apply_fast_resolution has returned from the wavelength pass alone
WavelengthOnly ==
    FastReturned /\ call.args.wavelengt /\ ~call.args.alpha /\ ~call.args.phi

\* the neighbourhood i +- i_range, j +- j_range of pixel (i, j) exceeds the
\* detector, or spans fewer than 2 pixels
NeighbourhoodUnusable(cfg, i, j) ==
    LET ir == int(2 * cfg.dlambda_rel * Abs(i - cfg.center_y_pix), 100)
        jr == int(2 * cfg.dlambda_rel * Abs(j - cfg.center_x_pix), 100)
    IN  \/ i - ir < 0
        \/ j - jr < 0
        \/ i + ir > cfg.detector_pixels - 1
        \/ j + jr > cfg.detector_pixels - 1
        \/ (ir < 2 /\ jr < 2)

\* C16: in the wavelength pass every pixel whose neighbourhood would exceed the
\* detector bounds, or degenerates to fewer than 2 pixels, has an output value
\* equal to its input value.
C16_UnusablePixelsPassThrough ==
    WavelengthOnly =>
        \A i \in DOMAIN call.args.data : \A j \in DOMAIN call.args.data[i] :
            NeighbourhoodUnusable(config, i, j) =>
                ret.image[i][j] = call.args.data[i][j]

\* the wavelength pass has changed a pixel of the image and has passed through a
\* pixel beside the beam centre and a pixel at the far edge
C16_Witness ==
    /\ WavelengthOnly
    /\ ret.image # call.args.data
    /\ NeighbourhoodUnusable(config, 1, 1)
    /\ NeighbourhoodUnusable(config, config.detector_pixels - 1, 2)
    /\ \E i \in DOMAIN call.args.data : \E j \in DOMAIN call.args.data[i] :
           ~NeighbourhoodUnusable(config, i, j) /\ ret.image[i][j] # call.args.data[i][j]

ExpectedRows(exp, cfg) ==
    int(2 * int(cfg.guide_size * AngleUnit, 2 * exp.collimation_length),
        int(cfg.detector_size * AngleUnit, cfg.detector_pixels * exp.detector_distance)) + 1

ExpectedColumns(exp, cfg) ==
    int(2 * int((cfg.guide_size + exp.sample_size) * AngleUnit, 2 * exp.collimation_length),
        int(cfg.detector_size * AngleUnit, cfg.detector_pixels * exp.detector_distance)) + 1

\* C18: the angular kernel of apply_fast_resolution is the outer product of the
\* per-axis profiles: kernel_height rows when alpha is requested and 1 row
\* otherwise, kernel_width columns when phi is requested and 1 column
\* otherwise; with neither requested no angular convolution is made; the image
\* returned has the shape of the input image.
C18_KernelShape ==
    FastReturned =>
        LET alpha == call.args.alpha
            phi == call.args.phi
            k == Kernel(experiment, config, alpha, phi)
            h == IF alpha THEN ExpectedRows(experiment, config) ELSE 1
            w == IF phi THEN ExpectedColumns(experiment, config) ELSE 1
        IN  /\ (alpha \/ phi) =>
                   /\ k.h = h /\ k.w = w
                   /\ DOMAIN k.num = 0 .. (h - 1)
                   /\ \A t \in 0 .. (h - 1) :
                          /\ DOMAIN k.num[t] = 0 .. (w - 1)
                          /\ k.num[t] = k.num[0]
                   /\ ~phi => (k.den = 1 /\ \A t \in 0 .. (h - 1) : k.num[t][0] = 1)
                   /\ phi => (k.den = phi_denominator(experiment, config)
                              /\ k.num[0] = phi_profile(experiment, config))
                   /\ (~ret.norm_zero /\ ~call.args.wavelengt) =>
                          ret.image = Convolve(call.args.data, k)
            /\ (~alpha /\ ~phi) =>
                   /\ \A n \in 1 .. Len(ret.passes) : ret.passes[n].pass # "angular"
                   /\ ~call.args.wavelengt => ret.image = call.args.data
            /\ DOMAIN ret.image = DOMAIN call.args.data
            /\ \A i \in DOMAIN ret.image : DOMAIN ret.image[i] = DOMAIN call.args.data[i]

\* an image has been convolved along alpha alone on a geometry whose azimuth
\* kernel would be several columns wide
C18_Witness ==
    /\ FastReturned /\ call.args.alpha /\ ~call.args.phi /\ ~call.args.wavelengt
    /\ ExpectedRows(experiment, config) > 1
    /\ ExpectedColumns(experiment, config) > 1
    /\ ret.image # call.args.data

\* every pixel of the image is >= 0
NonNegative(image) == \A i \in DOMAIN image : \A j \in DOMAIN image[i] : image[i][j] >= 0

\* the pixels the wavelength pass smears
SmearedPixels(cfg) ==
    {p \in (0 .. (cfg.detector_pixels - 1)) \X (0 .. (cfg.detector_pixels - 1)) :
        ~PassedThrough(cfg, p[1], p[2])}

\* C19: the wavelength pass maps every image of non-negative intensities to an
\* image of non-negative intensities: for every smeared pixel each tent weight
\* f = 0.5 - |k| / range over k in range(-range // 2, range // 2 + 1) is >= 0,
\* for even and odd range alike.
C19_TentWeightsNonNegative ==
    WavelengthOnly =>
        /\ \A p \in SmearedPixels(config) :
               \A k \in TentRange(DominantRange(config, p[1], p[2])) :
                   TentWeight(DominantRange(config, p[1], p[2]), k) >= 0
        /\ NonNegative(call.args.data) => NonNegative(ret.image)

\* C20: in the wavelength pass on a detector_pixels x detector_pixels image,
\* every pixel that is not passed through reads only input indices inside
\* [0, detector_pixels - 1] on both axes, and its weight normaliser N is
\* strictly positive when result /= N is executed.
C20_IndicesInsideAndNormPositive ==
    (FastReturned /\ call.args.wavelengt) =>
        \A p \in SmearedPixels(config) :
            LET r == DominantRange(config, p[1], p[2])
            IN  /\ \A k \in TentRange(r) :
                       /\ SourceIndex(config, p[1], p[2], k)[1] \in 0 .. (config.detector_pixels - 1)
                       /\ SourceIndex(config, p[1], p[2], k)[2] \in 0 .. (config.detector_pixels - 1)
                /\ TentNorm(r) > 0

\* the wavelength pass has smeared a pixel of odd range and a pixel of even
\* range, one of them reading row or column 0
C20_Witness ==
    /\ WavelengthOnly
    /\ \E p \in SmearedPixels(config) : DominantRange(config, p[1], p[2]) % 2 = 1
    /\ \E p \in SmearedPixels(config) : DominantRange(config, p[1], p[2]) % 2 = 0
    /\ \E p \in SmearedPixels(config) :
           \E k \in TentRange(DominantRange(config, p[1], p[2])) :
               SourceIndex(config, p[1], p[2], k)[1] = 0
    /\ ret.image # call.args.data

\* C21: runGISANS with any negative bin count, on an experiment whose class
\* does not define its own apply_fast_resolution, ends in an error raised to the
\* caller: the engine has been started once, the error comes out of the engine
\* run or, after it, out of the apply_fast_resolution call, and no GISASResult
\* is returned.
C21_MissingFastResolutionRaises ==
    (/\ call.op = "runGISANS"
     /\ ret.kind \in {"GISASResult", "raised"}
     /\ ~DefinesFastResolution(experiment)
     /\ AnyNegative(call.args.resopts)) =>
        /\ ret.kind = "raised"
        /\ Len(engineLog) = 1
        /\ ret.stage \in {"engine", "fast_resolution"}
        /\ ret.stage = "engine" => fastLog = <<>>
        /\ ret.stage = "fast_resolution" =>
               /\ Len(fastLog) = 1
               /\ fastLog[1].data = EngineImage(engineLog[1])

\* the engine ran without a fault and the base class's apply_fast_resolution,
\* called with the engine's image, raised
C21_Witness ==
    /\ call.op = "runGISANS"
    /\ ~DefinesFastResolution(experiment)
    /\ AnyNegative(call.args.resopts)
    /\ ret.kind = "raised"
    /\ ret.stage = "fast_resolution"
    /\ Len(engineLog) = 1
    /\ Len(fastLog) = 1

===========================================================================
